---- MODULE Spec2Model ----
(***************************************************************************)
(* State-machine model of the RL-BIM agent: BIMAgent (src/agent/main.py)   *)
(* and MCPClient (src/agent/mcp_client.py).                                *)
(*                                                                         *)
(* The agent object's fields, the MCP client's fields and the debug file   *)
(* on disk are global state; the locals of one run() coroutine are kept    *)
(* per caller in functions over Coros.                                     *)
(***************************************************************************)
EXTENDS Integers, Sequences, FiniteSets, TLC

\* ------------------------------------------------------------------ bounds
MaxSteps == 2
MaxCalls == 2
MaxRuns == 2
MaxBlocks == 3
MaxImages == 2

\* ------------------------------------------------------------ value spaces
\* The callers that may execute run() on the one agent object; main() is the
\* only one when the agent is used as the command-line program.
Coros == {"A", "B"}
MainCallers == {"A"}
\* Task texts handed to run().
TaskTexts == {"find the entrance", "count the storeys"}
\* Tool names the backend serves.
ServerTools == {"orbit_camera"}
\* Catalogs session.list_tools() may answer with.
Catalogs == {<<>>, <<"orbit_camera">>}
\* The (name, arguments) pairs of the function calls the engine may ask for:
\* a served tool, a tool the backend does not know, and arguments that are
\* not JSON.
EngineCalls ==
    {<<"orbit_camera", "{}">>, <<"missing_tool", "{}">>, <<"orbit_camera", "{bad">>}

VARIABLES
    \* BIMAgent fields
    max_steps,          \* self.max_steps
    input_items,        \* self.input_items
    step_count,         \* self.step_count
    screenshot_saved,   \* hasattr(self, "_screenshot_saved")
    \* MCPClient fields
    session,            \* self.mcp.session is not None
    tools_cache,        \* self.mcp._tools_cache
    \* disk
    debug_file,         \* debug_screenshot.png
    \* locals of run(), per caller
    pc,                 \* position of the caller in run()
    step,               \* loop variable of `for step in range(self.max_steps)`
    openai_tools,       \* local openai_tools
    function_calls,     \* local function_calls
    fci,                \* position of `fc` in function_calls (1-based)
    response,           \* local response: the engine's last answer in this run
    ret,                \* how run() ended: value returned or exception raised
    \* the formatter called on its own
    fmt_in,             \* content blocks handed to _format_tool_output
    fmt_out,            \* what _format_tool_output gave back
    \* history
    inferences,         \* responses.create calls started in the caller's run
    invocations,        \* session.call_tool calls started in the caller's run
    toolSteps,          \* engine answers of the run that held a function call
    lastCall,           \* the function call handled last in the run, and how it went
    imagesSeen,         \* calls of _save_debug_screenshot on this object
    writesTried,        \* ordinals of the images whose write was attempted
    runs,               \* run() calls started on this object
    own,                \* the items the caller's run put into a conversation
    sent,               \* the input of the call that response[c] answered
    toolsPassed,        \* the `tools` arguments of the run's inference calls
    completed           \* session.call_tool calls of the run that came back

agentVars == <<max_steps, input_items, step_count, screenshot_saved>>
mcpVars == <<session, tools_cache>>
diskVars == <<debug_file, imagesSeen, writesTried>>
localVars == <<pc, step, openai_tools, function_calls, fci, response, ret>>
fmtVars == <<fmt_in, fmt_out>>
histVars == <<inferences, invocations, toolSteps, lastCall, runs, own, sent,
              toolsPassed, completed>>
vars == <<agentVars, mcpVars, diskVars, localVars, fmtVars, histVars>>

\* ------------------------------------------------------------- Python values
\* A Python str, the value None and a dict (as its ordered key/value pairs).
PyStr(s) == [py |-> "str", s |-> s]
PyNone == [py |-> "NoneType"]
PyDict(items) == [py |-> "dict", items |-> items]

\* sep.join(parts) for strings.
RECURSIVE Join(_, _)
Join(parts, sep) ==
    IF parts = <<>> THEN ""
    ELSE IF Len(parts) = 1 THEN parts[1]
    ELSE parts[1] \o sep \o Join(Tail(parts), sep)

\* The texts json.loads accepts, with the value each parses to; every other
\* text raises json.JSONDecodeError.
JsonTexts == {"{}", "{\"n\":1}"}
JsonValue(text) ==
    IF text = "{}" THEN PyDict(<<>>) ELSE PyDict(<<<<"n", 1>>>>)
JsonLoads(text) ==
    IF text \in JsonTexts
    THEN [ok |-> TRUE, value |-> JsonValue(text)]
    ELSE [ok |-> FALSE, value |-> PyNone]

\* json.dumps of a dict with default separators (", " and ": ").
RECURSIVE DumpItems(_)
DumpItems(items) ==
    IF items = <<>> THEN <<>>
    ELSE <<"\"" \o items[1][1] \o "\": " \o ToString(items[1][2])>>
         \o DumpItems(Tail(items))
JsonDumps(d) == "{" \o Join(DumpItems(d.items), ", ") \o "}"

\* ------------------------------------------------- MCPClient.call_tool parse
\* Raw content blocks of a backend answer (result.content).
RawText(t) == [type |-> "text", text |-> t]
RawImage(d, m) == [type |-> "image", data |-> d, mimeType |-> m]
RawResource == [type |-> "resource"]

\* One parsed block of the dict call_tool returns.
TextBlock(d) == [type |-> "text", data |-> d]
ImageBlock(d, m) == [type |-> "image", data |-> d, mimeType |-> m]

\* The loop of call_tool over result.content: text is parsed as JSON with the
\* text itself as fallback, images are copied, other block types are dropped.
RECURSIVE ParseContent(_)
ParseContent(raw) ==
    IF raw = <<>> THEN <<>>
    ELSE LET b == raw[1]
             rest == ParseContent(Tail(raw))
         IN IF b.type = "text"
            THEN LET j == JsonLoads(b.text)
                 IN <<TextBlock(IF j.ok THEN j.value ELSE PyStr(b.text))>> \o rest
            ELSE IF b.type = "image"
            THEN <<ImageBlock(b.data, b.mimeType)>> \o rest
            ELSE rest

\* ------------------------------------------- BIMAgent._format_tool_output
\* The two shapes of a function_call_output's "output".
OutStr(s) == [py |-> "str", s |-> s]
OutList(items) == [py |-> "list", items |-> items]
FunctionCallOutput(call_id, output) ==
    [type |-> "function_call_output", call_id |-> call_id, output |-> output]

\* json.dumps(data) if isinstance(data, dict) else str(data)
BlockText(data) == IF data.py = "dict" THEN JsonDumps(data) ELSE data.s

InputText(text) == [type |-> "input_text", text |-> text]
InputImage(b64, mime) ==
    [type |-> "input_image",
     image_url |-> "data:" \o mime \o ";base64," \o b64,
     detail |-> "auto"]

\* Mutant: only the first block is looked at.
HasImage_FirstOnly(blocks) == blocks # <<>> /\ blocks[1].type = "image"

HasImage(blocks) == \E i \in 1..Len(blocks) : blocks[i].type = "image"

\* The loop of the has_image branch.  len(b64_data) raises TypeError when the
\* data is not a str, before the screenshot is saved; `saved` lists the data
\* handed to _save_debug_screenshot so far.
TypeErrorText == "object of type 'NoneType' has no len()"
RECURSIVE OutputParts(_, _, _)
OutputParts(blocks, parts, saved) ==
    IF blocks = <<>> THEN [raised |-> FALSE, exc |-> "", parts |-> parts, saved |-> saved]
    ELSE LET b == blocks[1]
         IN IF b.type = "image"
            THEN IF b.data.py # "str"
                 THEN [raised |-> TRUE, exc |-> TypeErrorText,
                       parts |-> parts, saved |-> saved]
                 ELSE OutputParts(Tail(blocks),
                                  Append(parts, InputImage(b.data.s, b.mimeType)),
                                  Append(saved, b.data.s))
            ELSE IF b.type = "text"
            THEN OutputParts(Tail(blocks),
                             Append(parts, InputText(BlockText(b.data))), saved)
            ELSE OutputParts(Tail(blocks), parts, saved)

\* The loop of the text-only branch.
RECURSIVE TextParts(_)
TextParts(blocks) ==
    IF blocks = <<>> THEN <<>>
    ELSE IF blocks[1].type = "text"
    THEN <<BlockText(blocks[1].data)>> \o TextParts(Tail(blocks))
    ELSE TextParts(Tail(blocks))

\* _format_tool_output(call_id, result) with result["content"] = blocks:
\* whether it raised, the item it returned, and the image data it handed to
\* _save_debug_screenshot on the way.
FormatToolOutput(call_id, blocks) ==
    IF HasImage(blocks)
    THEN LET r == OutputParts(blocks, <<>>, <<>>)
         IN [raised |-> r.raised, exc |-> r.exc, saved |-> r.saved,
             item |-> FunctionCallOutput(call_id, OutList(r.parts))]
    ELSE [raised |-> FALSE, exc |-> "", saved |-> <<>>,
          item |-> FunctionCallOutput(call_id, OutStr(Join(TextParts(blocks), "\n")))]


\* ------------------------------------------ BIMAgent._save_debug_screenshot
NoFile == [exists |-> FALSE, image |-> 0, complete |-> FALSE]
\* What the try block can leave on disk for the image with ordinal k:
\* "ok" wrote it whole, "not_opened" failed in b64decode or open and left the
\* disk as it was, "partial" failed in f.write after open() truncated the file.
WriteOutcomes == {"ok", "not_opened", "partial"}
WriteFile(file, k, w) ==
    IF w = "not_opened" THEN file
    ELSE [exists |-> TRUE, image |-> k, complete |-> (w = "ok")]

\* Mutant: the hasattr guard is missing, every call writes.
SaveProceeds_Always(saved_flag) == TRUE

\* Whether a call of _save_debug_screenshot goes past its first `return`.
SaveProceeds(saved_flag) == ~saved_flag

\* Mutant: the flag is set at the end of the try block, after a write that
\* went through.
FlagAfterCall_OnSuccess(w) == w = "ok"

\* hasattr(self, "_screenshot_saved") after a call that proceeded with write
\* outcome w: the flag is set before the try block.
FlagAfterCall(w) == TRUE

\* The calls _save_debug_screenshot(d) for d in `saved`, in order, from the
\* flag, the file and the number of images seen so far: a call that proceeds
\* sets the flag and attempts the write.
RECURSIVE SaveAll(_, _, _, _, _)
SaveAll(saved, flag, file, seen, w) ==
    IF saved = <<>> THEN [flag |-> flag, file |-> file, seen |-> seen, tried |-> {}]
    ELSE IF SaveProceeds(flag)
    THEN LET r == SaveAll(Tail(saved), FlagAfterCall(w),
                          WriteFile(file, seen + 1, w), seen + 1, w)
         IN [r EXCEPT !.tried = r.tried \cup {seen + 1}]
    ELSE SaveAll(Tail(saved), flag, file, seen + 1, w)

SaveDebugScreenshots(saved, w) ==
    LET r == SaveAll(saved, screenshot_saved, debug_file, imagesSeen, w)
    IN /\ screenshot_saved' = r.flag
       /\ debug_file' = r.file
       /\ imagesSeen' = r.seen
       /\ writesTried' = writesTried \cup r.tried

\* Mutant: the except clause is missing, a failed write raises to the caller.
SaveRaises_Uncaught(w) == w # "ok"

\* Whether _save_debug_screenshot raises to its caller when the write went as
\* w: `except Exception` catches what b64decode, open and write raise.
SaveRaises(w) == FALSE
SaveErrorText == "[Errno 13] Permission denied: 'debug_screenshot.png'"

\* _format_tool_output as its caller sees it, on an object whose screenshot
\* flag is `flag` and whose write goes as w: an exception that
\* _save_debug_screenshot raises ends the loop at that image block.
FormatCall(call_id, blocks, flag, w) ==
    LET f == FormatToolOutput(call_id, blocks)
    IN IF f.saved # <<>> /\ SaveProceeds(flag) /\ SaveRaises(w)
       THEN [f EXCEPT !.raised = TRUE, !.exc = SaveErrorText, !.saved = <<f.saved[1]>>]
       ELSE f

\* --------------------------------------------------------- engine and tools
Message(text) == [type |-> "message", text |-> text]
FunctionCall(call_id, name, arguments) ==
    [type |-> "function_call", call_id |-> call_id, name |-> name,
     arguments |-> arguments]
UserItem(task) ==
    [role |-> "user",
     content |-> "Task: " \o task \o "\n\nStart by capturing a view of the model."]

IsFunctionCall(item) == "type" \in DOMAIN item /\ item.type = "function_call"
IsFunctionCallOutput(item) ==
    "type" \in DOMAIN item /\ item.type = "function_call_output"
IsMessage(item) == "type" \in DOMAIN item /\ item.type = "message"

\* [item for item in response.output if item.type == "function_call"]
FunctionCallsOf(output) == SelectSeq(output, IsFunctionCall)

\* response.output_text: the text of the output's messages.
RECURSIVE OutputText(_)
OutputText(output) ==
    IF output = <<>> THEN ""
    ELSE (IF IsMessage(output[1]) THEN output[1].text ELSE "")
         \o OutputText(Tail(output))

\* The engine issues call ids that are new in the conversation it was sent.
NextCallId(items) == Len(SelectSeq(items, IsFunctionCall)) + 1

\* The outputs the engine may answer with: an optional message followed by up
\* to MaxCalls function calls.
FinalText == "TASK COMPLETE: done"
CallSeqs(n, k) ==
    { [i \in 1..k |-> FunctionCall(n + i - 1, f[i][1], f[i][2])] :
        f \in [1..k -> EngineCalls] }
EngineOutputs(items) ==
    UNION { { prefix \o calls : calls \in CallSeqs(NextCallId(items), k) } :
            k \in 0..MaxCalls, prefix \in {<<>>, <<Message(FinalText)>>} }

\* What the backend may do with session.call_tool(name, arguments): raise, or
\* answer with content blocks.
RaiseOutcome(msg) == [raised |-> TRUE, exc |-> msg, content |-> <<>>]
ContentOutcome(content) == [raised |-> FALSE, exc |-> "", content |-> content]
GoodImage == RawImage(PyStr("QUJD"), "image/png")
BadImage == RawImage(PyNone, "image/png")
BackendContents ==
    { <<RawText("{\"n\":1}")>>,
      <<RawText("a"), RawResource, GoodImage>>,
      <<BadImage>> }
\* Mutant: the backend never answers a call.
BackendOutcomes_Never(name) == {}

BackendOutcomes(name) ==
    IF name \in ServerTools
    THEN {RaiseOutcome("Connection closed")}
         \cup {ContentOutcome(c) : c \in BackendContents}
    ELSE {RaiseOutcome("Unknown tool: " \o name)}
\* The images an answer carries.
ImagesIn(content) == Len(SelectSeq(content, LAMBDA b : b.type = "image"))

\* ------------------------------------------------------------ MCPClient
NoCache == [isNone |-> TRUE, tools |-> <<>>]
Cache(tools) == [isNone |-> FALSE, tools |-> tools]
\* Mutant: `if self._tools_cache is None`, the empty list passes.
CacheFalsy_NoneOnly(cache) == cache.isNone

\* `not self._tools_cache`: None and the empty list are both falsy.
CacheFalsy(cache) == cache.isNone \/ cache.tools = <<>>

\* get_openai_tools_schema: one function tool per cached tool.
OpenAiTool(name) == [type |-> "function", name |-> name]
OpenAiToolsSchema(cache) == [i \in 1..Len(cache.tools) |-> OpenAiTool(cache.tools[i])]


\* ------------------------------------------------------------- BIMAgent.run
NoRet == [kind |-> "none", outcome |-> "none", value |-> ""]
Returned(outcome, value) == [kind |-> "return", outcome |-> outcome, value |-> value]
\* Mutant: the exception is caught and its text is returned as the answer.
Raised_AsAnswer(exc) == [kind |-> "return", outcome |-> "Completed", value |-> exc]

Raised(exc) == [kind |-> "raise", outcome |-> "none", value |-> exc]

Active(c) == pc[c] \in {"loop", "infer", "dispatch", "await_tool"}

\* run() is left: by `return` or by an exception that propagates to the caller.
\* The frame's locals are gone; the last engine answer is kept for reference.
EndRun(c, r) ==
    /\ pc' = [pc EXCEPT ![c] = IF r.kind = "return" THEN "returned" ELSE "raised"]
    /\ ret' = [ret EXCEPT ![c] = r]
    /\ step' = [step EXCEPT ![c] = -1]
    /\ openai_tools' = [openai_tools EXCEPT ![c] = <<>>]
    /\ function_calls' = [function_calls EXCEPT ![c] = <<>>]
    /\ fci' = [fci EXCEPT ![c] = 0]
    /\ UNCHANGED response

\* Mutant: range(self.max_steps + 1).
RangeHasNext_Inclusive(s, n) == s + 1 <= n

\* range(self.max_steps) has a value after `s` (s = -1 before the first).
RangeHasNext(s, n) == s + 1 < n

\* Mutant: the early return is never taken.
NoFunctionCalls_Never(calls) == FALSE

\* `if not function_calls:`
NoFunctionCalls(calls) == calls = <<>>

\* Mutant: the error item does not carry the call's id.
ToolErrorItem_NoCallId(call_id, e) ==
    FunctionCallOutput(0, OutStr("Tool error: " \o e))

\* The except branch of the tool loop: error_msg and the item appended.
ToolErrorItem(call_id, e) == FunctionCallOutput(call_id, OutStr("Tool error: " \o e))

\* The current `fc` of the caller's `for fc in function_calls`.
CurrentCall(c) == function_calls[c][fci[c]]

\* Mutant: self.step_count = step.
StepCountOf_Index(s) == s

\* self.step_count = step + 1
StepCountOf(s) == s + 1

\* The `for fc in function_calls` header after i calls of `calls` are done:
\* the next call, or back to the `for step` header.
ForCallHeader(c, calls, i) ==
    IF i < Len(calls)
    THEN /\ fci' = [fci EXCEPT ![c] = i + 1]
         /\ pc' = [pc EXCEPT ![c] = "dispatch"]
    ELSE /\ fci' = [fci EXCEPT ![c] = 0]
         /\ pc' = [pc EXCEPT ![c] = "loop"]
NextCall(c) == ForCallHeader(c, function_calls[c], fci[c])

\* How the handling of one function call went.
NoCall == [call_id |-> 0, status |-> "none", exc |-> ""]
CallDone(call_id, status, exc) == [call_id |-> call_id, status |-> status, exc |-> exc]
FailedStatuses == {"not_connected", "backend_raised", "format_raised"}
NoResponse == [received |-> FALSE, output |-> <<>>]
Response(output) == [received |-> TRUE, output |-> output]

\* run(task) is entered: the conversation is reset to the user task and the
\* tool schema is fetched; get_openai_tools_schema raises on a falsy cache.
RunBegin(c, task) ==
    /\ ~Active(c)
    /\ runs < MaxRuns
    /\ runs' = runs + 1
    /\ input_items' = <<UserItem(task)>>
    /\ inferences' = [inferences EXCEPT ![c] = 0]
    /\ invocations' = [invocations EXCEPT ![c] = 0]
    /\ toolSteps' = [toolSteps EXCEPT ![c] = 0]
    /\ lastCall' = [lastCall EXCEPT ![c] = NoCall]
    /\ response' = [response EXCEPT ![c] = NoResponse]
    /\ own' = [own EXCEPT ![c] = <<UserItem(task)>>]
    /\ sent' = [sent EXCEPT ![c] = <<>>]
    /\ toolsPassed' = [toolsPassed EXCEPT ![c] = {}]
    /\ completed' = [completed EXCEPT ![c] = 0]
    /\ IF CacheFalsy(tools_cache)
       THEN /\ pc' = [pc EXCEPT ![c] = "raised"]
            /\ ret' = [ret EXCEPT ![c] = Raised("RuntimeError: Call list_tools() first")]
            /\ UNCHANGED <<step, openai_tools, function_calls, fci>>
       ELSE /\ openai_tools' = [openai_tools EXCEPT ![c] = OpenAiToolsSchema(tools_cache)]
            /\ pc' = [pc EXCEPT ![c] = "loop"]
            /\ ret' = [ret EXCEPT ![c] = NoRet]
            /\ step' = [step EXCEPT ![c] = -1]
            /\ UNCHANGED <<function_calls, fci>>
    /\ UNCHANGED <<max_steps, step_count, screenshot_saved, mcpVars, diskVars, fmtVars>>

\* The `for step` header yields the next step; self.step_count = step + 1.
StepBegin(c) ==
    /\ pc[c] = "loop"
    /\ RangeHasNext(step[c], max_steps)
    /\ step' = [step EXCEPT ![c] = step[c] + 1]
    /\ step_count' = StepCountOf(step'[c])
    /\ pc' = [pc EXCEPT ![c] = "infer"]
    /\ UNCHANGED <<max_steps, input_items, screenshot_saved, mcpVars, diskVars,
                   openai_tools, function_calls, fci, response, ret, fmtVars, histVars>>

\* The range is used up: return "INCOMPLETE: Max steps reached".
MaxStepsReached(c) ==
    /\ pc[c] = "loop"
    /\ ~RangeHasNext(step[c], max_steps)
    /\ EndRun(c, Returned("Exhausted", "INCOMPLETE: Max steps reached"))
    /\ UNCHANGED <<agentVars, mcpVars, diskVars, fmtVars, histVars>>

\* Mutant: the engine output is put in front of the conversation.
ExtendItems_InFront(items, output) == output \o items

\* self.input_items += response.output
ExtendItems(items, output) == items \o output

\* Mutant: the schema is read from the MCP client's cache at every call.
ToolsArgument_FromCache(c) == OpenAiToolsSchema(tools_cache)

\* The `tools=openai_tools` argument of responses.create.
ToolsArgument(c) == openai_tools[c]

\* responses.create answers with `output`: it is appended to the conversation;
\* without function calls run() returns response.output_text.
Inference(c, output) ==
    /\ pc[c] = "infer"
    /\ inferences' = [inferences EXCEPT ![c] = inferences[c] + 1]
    /\ input_items' = ExtendItems(input_items, output)
    /\ own' = [own EXCEPT ![c] = own[c] \o output]
    /\ sent' = [sent EXCEPT ![c] = input_items]
    /\ toolsPassed' = [toolsPassed EXCEPT ![c] = toolsPassed[c] \cup {ToolsArgument(c)}]
    /\ toolSteps' = [toolSteps EXCEPT ![c] =
                        IF FunctionCallsOf(output) # <<>> THEN toolSteps[c] + 1
                        ELSE toolSteps[c]]
    /\ IF NoFunctionCalls(FunctionCallsOf(output))
       THEN /\ pc' = [pc EXCEPT ![c] = "returned"]
            /\ ret' = [ret EXCEPT ![c] = Returned("Completed", OutputText(output))]
            /\ step' = [step EXCEPT ![c] = -1]
            /\ openai_tools' = [openai_tools EXCEPT ![c] = <<>>]
            /\ function_calls' = [function_calls EXCEPT ![c] = <<>>]
            /\ fci' = [fci EXCEPT ![c] = 0]
       ELSE /\ function_calls' = [function_calls EXCEPT ![c] = FunctionCallsOf(output)]
            /\ ForCallHeader(c, FunctionCallsOf(output), 0)
            /\ UNCHANGED <<step, openai_tools, ret>>
    /\ response' = [response EXCEPT ![c] = Response(output)]
    /\ UNCHANGED <<max_steps, step_count, screenshot_saved, mcpVars, diskVars,
                   fmtVars, invocations, lastCall, runs, completed>>

\* responses.create raises (the engine cannot be reached): nothing catches it.
InferenceFails(c) ==
    /\ pc[c] = "infer"
    /\ inferences' = [inferences EXCEPT ![c] = inferences[c] + 1]
    /\ toolsPassed' = [toolsPassed EXCEPT ![c] = toolsPassed[c] \cup {ToolsArgument(c)}]
    /\ EndRun(c, Raised("APIConnectionError"))
    /\ UNCHANGED <<agentVars, mcpVars, diskVars, fmtVars, invocations, toolSteps,
                   lastCall, runs, own, sent, completed>>

\* Lines 225-231 for the current fc: json.loads(fc.arguments) outside the try,
\* then call_tool, which raises at once without a session (caught by the
\* except branch) and otherwise awaits the backend.
Dispatch(c) ==
    /\ pc[c] = "dispatch"
    /\ IF ~JsonLoads(CurrentCall(c).arguments).ok
       THEN /\ EndRun(c, Raised("JSONDecodeError"))
            /\ UNCHANGED <<input_items, invocations, lastCall, own>>
       ELSE IF ~session
       THEN /\ input_items' =
                   Append(input_items,
                          ToolErrorItem(CurrentCall(c).call_id, "Not connected"))
            /\ lastCall' = [lastCall EXCEPT ![c] =
                               CallDone(CurrentCall(c).call_id, "not_connected",
                                        "Not connected")]
            /\ own' = [own EXCEPT ![c] =
                           Append(own[c],
                                  ToolErrorItem(CurrentCall(c).call_id, "Not connected"))]
            /\ NextCall(c)
            /\ UNCHANGED <<step, openai_tools, function_calls, response, ret,
                           invocations>>
       ELSE /\ pc' = [pc EXCEPT ![c] = "await_tool"]
            /\ invocations' = [invocations EXCEPT ![c] = invocations[c] + 1]
            /\ UNCHANGED <<input_items, step, openai_tools, function_calls, fci,
                           response, ret, lastCall, own>>
    /\ UNCHANGED <<max_steps, step_count, screenshot_saved, mcpVars, diskVars,
                   fmtVars, inferences, toolSteps, runs, sent, toolsPassed, completed>>

\* The item lines 232-249 append for a backend outcome: the formatted result,
\* or the error item when the call or the formatting raised.
ToolOutputItem(call_id, outcome, flag, w) ==
    IF outcome.raised
    THEN ToolErrorItem(call_id, outcome.exc)
    ELSE LET f == FormatCall(call_id, ParseContent(outcome.content), flag, w)
         IN IF f.raised THEN ToolErrorItem(call_id, f.exc) ELSE f.item

\* session.call_tool comes back with `outcome`; the result is parsed,
\* formatted (saving the first screenshot, with write outcome w) and appended.
ToolReturn(c, outcome, w) ==
    /\ pc[c] = "await_tool"
    /\ outcome \in BackendOutcomes(CurrentCall(c).name)
    /\ imagesSeen + ImagesIn(outcome.content) <= MaxImages
    /\ input_items' =
          Append(input_items,
                 ToolOutputItem(CurrentCall(c).call_id, outcome, screenshot_saved, w))
    /\ own' = [own EXCEPT ![c] =
                  Append(own[c],
                         ToolOutputItem(CurrentCall(c).call_id, outcome,
                                        screenshot_saved, w))]
    /\ completed' = [completed EXCEPT ![c] = completed[c] + 1]
    /\ IF outcome.raised
       THEN UNCHANGED <<screenshot_saved, diskVars>>
       ELSE SaveDebugScreenshots(
                FormatCall(CurrentCall(c).call_id, ParseContent(outcome.content),
                           screenshot_saved, w).saved, w)
    /\ lastCall' = [lastCall EXCEPT ![c] =
           LET f == FormatCall(CurrentCall(c).call_id, ParseContent(outcome.content),
                               screenshot_saved, w)
           IN IF outcome.raised
              THEN CallDone(CurrentCall(c).call_id, "backend_raised", outcome.exc)
              ELSE IF f.raised
              THEN CallDone(CurrentCall(c).call_id, "format_raised", f.exc)
              ELSE CallDone(CurrentCall(c).call_id, "ok", "")]
    /\ NextCall(c)
    /\ UNCHANGED <<max_steps, step_count, mcpVars, step, openai_tools,
                   function_calls, response, ret, fmtVars, inferences, invocations,
                   toolSteps, runs, sent, toolsPassed>>

\* ------------------------------------------------------- agent life cycle
\* BIMAgent.start(): connect, then list_tools fills the cache.
Start(catalog) ==
    /\ ~session
    /\ session' = TRUE
    /\ tools_cache' = Cache(catalog)
    /\ UNCHANGED <<agentVars, diskVars, localVars, fmtVars, histVars>>

\* MCPClient.list_tools() called again: the cache is replaced.
ListTools(catalog) ==
    /\ session
    /\ tools_cache' = Cache(catalog)
    /\ UNCHANGED <<session, agentVars, diskVars, localVars, fmtVars, histVars>>

\* BIMAgent.shutdown(): the session is dropped, the cache stays.
Shutdown ==
    /\ session
    /\ session' = FALSE
    /\ UNCHANGED <<tools_cache, agentVars, diskVars, localVars, fmtVars, histVars>>

\* ----------------------------------------------------------- specification
NoFormat == [done |-> FALSE]

\* The state after BIMAgent(max_steps=...) is constructed.
InitAgent ==
    /\ max_steps \in 0..MaxSteps
    /\ input_items = <<>>
    /\ step_count = 0
    /\ screenshot_saved = FALSE
    /\ session = FALSE
    /\ tools_cache = NoCache
    /\ debug_file = NoFile
    /\ pc = [c \in Coros |-> "idle"]
    /\ step = [c \in Coros |-> -1]
    /\ openai_tools = [c \in Coros |-> <<>>]
    /\ function_calls = [c \in Coros |-> <<>>]
    /\ fci = [c \in Coros |-> 0]
    /\ response = [c \in Coros |-> NoResponse]
    /\ ret = [c \in Coros |-> NoRet]
    /\ fmt_out = NoFormat
    /\ inferences = [c \in Coros |-> 0]
    /\ invocations = [c \in Coros |-> 0]
    /\ toolSteps = [c \in Coros |-> 0]
    /\ lastCall = [c \in Coros |-> NoCall]
    /\ imagesSeen = 0
    /\ writesTried = {}
    /\ runs = 0
    /\ own = [c \in Coros |-> <<>>]
    /\ sent = [c \in Coros |-> <<>>]
    /\ toolsPassed = [c \in Coros |-> {}]
    /\ completed = [c \in Coros |-> 0]

Init == InitAgent /\ fmt_in = <<>>

\* No caller is inside run().
Quiet == \A c \in Coros : ~Active(c)

\* One caller at a time: run() is awaited to its end before anything else is
\* done with the agent, as main() does.
Next ==
    \/ \E c \in MainCallers, task \in TaskTexts : Quiet /\ RunBegin(c, task)
    \/ \E c \in MainCallers : StepBegin(c)
    \/ \E c \in MainCallers : MaxStepsReached(c)
    \/ \E c \in MainCallers : \E output \in EngineOutputs(input_items) : Inference(c, output)
    \/ \E c \in MainCallers : InferenceFails(c)
    \/ \E c \in MainCallers : Dispatch(c)
    \/ \E c \in MainCallers :
          /\ pc[c] = "await_tool"
          /\ \E outcome \in BackendOutcomes(CurrentCall(c).name), w \in WriteOutcomes :
                ToolReturn(c, outcome, w)
    \/ \E catalog \in Catalogs : Quiet /\ Start(catalog)
    \/ \E catalog \in Catalogs : Quiet /\ ListTools(catalog)
    \/ Quiet /\ Shutdown

Spec == Init /\ [][Next]_vars

\* -------------------------------------------- several tasks on one event loop
\* A caller holds the thread: it is inside run() and not suspended.  run()
\* suspends in `await self.mcp.call_tool(...)` only; responses.create is a
\* call of the synchronous OpenAI client and returns before anything else runs.
Running(c) == pc[c] \in {"loop", "infer", "dispatch"}
\* The event loop can give the thread to caller c, or to code outside run().
MayRun(c) == \A d \in Coros \ {c} : ~Running(d)
NoneRunning == \A c \in Coros : ~Running(c)

\* task.cancel() on the task that executes run() of caller c: CancelledError
\* is thrown into the coroutine where it is suspended, the await of line 231.
\* It is a BaseException, so `except Exception` of line 242 lets it pass and
\* run() ends with it; the answer of the tool call is not waited for.
Cancel(c) ==
    /\ pc[c] = "await_tool"
    /\ EndRun(c, Raised("CancelledError"))
    /\ UNCHANGED <<agentVars, mcpVars, diskVars, fmtVars, histVars>>

\* The return of the tool call of caller c is delivered.
ToolResumes(c) ==
    /\ pc[c] = "await_tool"
    /\ MayRun(c)
    /\ \E outcome \in BackendOutcomes(CurrentCall(c).name), w \in WriteOutcomes :
          ToolReturn(c, outcome, w)

\* The task each concurrent caller hands to run(), and the engine answers
\* considered when tasks run side by side: the final text, or one call of a
\* served tool.
TaskOf(c) == IF c = "A" THEN "find the entrance" ELSE "count the storeys"
ConcOutputs(items) ==
    { <<Message(FinalText)>>,
      <<FunctionCall(NextCallId(items), "orbit_camera", "{}")>> }

\* Tasks created with asyncio.create_task(agent.run(task)) on the one agent
\* object, next to code that starts, re-lists, shuts down and cancels.
NextConc ==
    \/ \E c \in Coros : MayRun(c) /\ RunBegin(c, TaskOf(c))
    \/ \E c \in Coros : MayRun(c) /\ StepBegin(c)
    \/ \E c \in Coros : MayRun(c) /\ MaxStepsReached(c)
    \/ \E c \in Coros :
          MayRun(c) /\ \E output \in ConcOutputs(input_items) : Inference(c, output)
    \/ \E c \in Coros : MayRun(c) /\ InferenceFails(c)
    \/ \E c \in Coros : MayRun(c) /\ Dispatch(c)
    \/ \E c \in Coros : ToolResumes(c)
    \/ \E c \in Coros : NoneRunning /\ Cancel(c)
    \/ \E catalog \in Catalogs : NoneRunning /\ Start(catalog)
    \/ \E catalog \in Catalogs : NoneRunning /\ ListTools(catalog)
    \/ NoneRunning /\ Shutdown

SpecConc == Init /\ [][NextConc]_vars


\* ------------------------------------------------------ main(), run to its end
\* A step of a run() that is under way: the interpreter goes on to the next
\* statement, the engine answers or fails, the tool backend answers or fails.
RunStep ==
    \E c \in MainCallers :
       \/ StepBegin(c)
       \/ MaxStepsReached(c)
       \/ \E output \in EngineOutputs(input_items) : Inference(c, output)
       \/ InferenceFails(c)
       \/ Dispatch(c)
       \/ /\ pc[c] = "await_tool"
          /\ \E outcome \in BackendOutcomes(CurrentCall(c).name), w \in WriteOutcomes :
                ToolReturn(c, outcome, w)

\* main(): agent.start(), one agent.run(task), then agent.shutdown().
NextMain ==
    \/ \E catalog \in Catalogs : runs = 0 /\ Start(catalog)
    \/ \E c \in MainCallers : runs = 0 /\ session /\ RunBegin(c, TaskOf(c))
    \/ RunStep
    \/ runs = 1 /\ Quiet /\ Shutdown

\* main() under the assumption that every call run() makes comes back.
SpecLive == Init /\ [][NextMain]_vars /\ WF_vars(RunStep)


\* ------------------------------------------- the formatter called on its own
\* The content blocks a parsed tool result may hold, well typed or not.
FmtBlocks ==
    { TextBlock(PyStr("a")), TextBlock(PyStr("b")), TextBlock(PyDict(<<<<"n", 1>>>>)),
      ImageBlock(PyStr("QUJD"), "image/png"), ImageBlock(PyNone, "image/png") }
BlockSeqs == UNION { [1..n -> FmtBlocks] : n \in 0..MaxBlocks }
CallIds == {1, 2}

InitFmt == InitAgent /\ fmt_in \in BlockSeqs

\* _format_tool_output(call_id, {"content": fmt_in}) is called once.
FormatApply(call_id, w) ==
    /\ ~fmt_out.done
    /\ LET f == FormatCall(call_id, fmt_in, screenshot_saved, w)
       IN /\ fmt_out' = [done |-> TRUE, call_id |-> call_id, raised |-> f.raised,
                         exc |-> f.exc, item |-> f.item, write |-> w]
          /\ SaveDebugScreenshots(f.saved, w)
    /\ UNCHANGED <<max_steps, input_items, step_count, mcpVars, localVars, fmt_in,
                   histVars>>

NextFmt == \E call_id \in CallIds, w \in WriteOutcomes : FormatApply(call_id, w)

SpecFmt == InitFmt /\ [][NextFmt]_vars


\* =================================================================== claims
Min(a, b) == IF a < b THEN a ELSE b

\* The positions of the tool results in `items` that carry call id `id`.
ResultsFor(items, id) ==
    { j \in 1..Len(items) : IsFunctionCallOutput(items[j]) /\ items[j].call_id = id }
\* Every function call has exactly one result, and every result follows the
\* function call it answers.
CallsAnswered(items) ==
    /\ \A i \in 1..Len(items) :
          IsFunctionCall(items[i]) => Cardinality(ResultsFor(items, items[i].call_id)) = 1
    /\ \A j \in 1..Len(items) :
          IsFunctionCallOutput(items[j]) =>
             \E i \in 1..(j - 1) :
                IsFunctionCall(items[i]) /\ items[i].call_id = items[j].call_id

\* C1: whenever run() is between two steps or has ended, whatever the engine
\* answered, every function_call item of the conversation has exactly one
\* function_call_output with its call_id, and every function_call_output
\* follows the function_call it answers.
C1_EveryCallAnswered ==
    \A c \in Coros :
       pc[c] \in {"loop", "returned", "raised"} => CallsAnswered(input_items)

\* C1, at the points where the tool loop of a step has run to its end: there
\* the pairing holds.
C1_AnsweredBetweenSteps ==
    \A c \in Coros : pc[c] \in {"loop", "returned"} => CallsAnswered(input_items)

\* C2: a function call whose arguments are not valid JSON never makes run()
\* raise: no run ends with the JSONDecodeError of json.loads.
C2_MalformedArgumentsContained ==
    \A c \in Coros : ~(pc[c] = "raised" /\ ret[c].value = "JSONDecodeError")

\* C3: a step in which a tool invocation fails (no session, the backend
\* raises, the formatting raises) appends exactly one item, the
\* function_call_output of that call with the error text as output, and
\* leaves run() in the tool loop: at the next call of the step, or at the
\* next step when it was the last one.
C3_ToolFailureContained ==
    [][\A c \in Coros :
          (lastCall'[c] # lastCall[c] /\ lastCall'[c].status \in FailedStatuses) =>
             /\ lastCall'[c].call_id = CurrentCall(c).call_id
             /\ input_items' =
                   Append(input_items,
                          FunctionCallOutput(CurrentCall(c).call_id,
                                             OutStr("Tool error: " \o lastCall'[c].exc)))
             /\ Cardinality(ResultsFor(input_items', CurrentCall(c).call_id)) = 1
             /\ function_calls'[c] = function_calls[c]
             /\ IF fci[c] < Len(function_calls[c])
                THEN pc'[c] = "dispatch" /\ fci'[c] = fci[c] + 1
                ELSE pc'[c] = "loop" /\ step'[c] = step[c]]_vars

\* C3 witness: the formatting of the first of two calls raised, its error
\* item is the last of the conversation, and the second call is next.
C3_Witness ==
    /\ lastCall["A"].status = "format_raised"
    /\ pc["A"] = "dispatch"
    /\ fci["A"] = 2
    /\ input_items[Len(input_items)] =
          FunctionCallOutput(lastCall["A"].call_id,
                             OutStr("Tool error: " \o TypeErrorText))

\* C4: a run never makes more than max_steps inference calls, and an
\* inference call is about to start only while fewer than max_steps steps are
\* done.
C4_InferenceBudget ==
    \A c \in Coros :
       /\ inferences[c] <= max_steps
       /\ pc[c] = "infer" => (step[c] < max_steps /\ inferences[c] < max_steps)

\* C4 witness: a run has used its whole budget of MaxSteps inference calls.
C4_Witness ==
    /\ max_steps = MaxSteps
    /\ inferences["A"] = max_steps
    /\ ret["A"].outcome = "Exhausted"


\* The frame records on disk: the ordinals of the recorded images that have a
\* file of their own.
Retained == IF debug_file.exists THEN {debug_file.image} ELSE {}

WellTyped(blocks) ==
    \A i \in 1..Len(blocks) : blocks[i].type = "image" => blocks[i].data.py = "str"

\* C6: for well-typed text/image blocks the formatter does not raise; with an
\* image among them the output is a list with one item per block in block
\* order, input_text for a text block and an input_image with the data inline
\* for an image block; without an image it is the string of the texts joined
\* by newline.
C6_FormatterPayload ==
    (fmt_out.done /\ WellTyped(fmt_in)) =>
       /\ ~fmt_out.raised
       /\ fmt_out.item.type = "function_call_output"
       /\ fmt_out.item.call_id = fmt_out.call_id
       /\ IF \E i \in 1..Len(fmt_in) : fmt_in[i].type = "image"
          THEN /\ fmt_out.item.output.py = "list"
               /\ Len(fmt_out.item.output.items) = Len(fmt_in)
               /\ \A i \in 1..Len(fmt_in) :
                     LET part == fmt_out.item.output.items[i]
                     IN IF fmt_in[i].type = "image"
                        THEN /\ part.type = "input_image"
                             /\ part.image_url =
                                   "data:" \o fmt_in[i].mimeType \o ";base64,"
                                   \o fmt_in[i].data.s
                        ELSE /\ part.type = "input_text"
                             /\ part.text = BlockText(fmt_in[i].data)
          ELSE /\ fmt_out.item.output.py = "str"
               /\ fmt_out.item.output.s =
                     Join([i \in 1..Len(fmt_in) |-> BlockText(fmt_in[i].data)], "\n")
       /\ fmt_in = <<TextBlock(PyStr("a")), TextBlock(PyStr("b"))>> =>
             fmt_out.item.output = OutStr("a\nb")

\* C6 witness: [Text a, Image] was formatted into a two-item list.
C6_Witness ==
    /\ fmt_out.done
    /\ fmt_in = <<TextBlock(PyStr("a")), ImageBlock(PyStr("QUJD"), "image/png")>>
    /\ fmt_out.item.output.py = "list"
    /\ Len(fmt_out.item.output.items) = 2

\* run() of caller c has ended after entering its loop.
EndedInLoop(c) ==
    /\ pc[c] \in {"returned", "raised"}
    /\ ret[c].value # "RuntimeError: Call list_tools() first"

\* C7: a run in which every inference call was answered with at least one
\* function call ends with the Exhausted outcome after exactly max_steps
\* inference calls.
C7_ExhaustedAfterMaxSteps ==
    \A c \in Coros :
       (EndedInLoop(c) /\ toolSteps[c] = inferences[c]) =>
          /\ pc[c] = "returned"
          /\ ret[c] = Returned("Exhausted", "INCOMPLETE: Max steps reached")
          /\ inferences[c] = max_steps

\* C8: when the answer to the k-th inference call of a run holds no function
\* call, after k-1 answers that did, run() has returned Completed with that
\* answer's text, the step count is k, k is at most max_steps, and exactly k
\* inference calls were made.
C8_CompletedOnText ==
    \A c \in Coros :
       (response[c].received /\ FunctionCallsOf(response[c].output) = <<>>) =>
          /\ pc[c] = "returned"
          /\ ret[c] = Returned("Completed", OutputText(response[c].output))
          /\ toolSteps[c] = inferences[c] - 1
          /\ step_count = inferences[c]
          /\ inferences[c] <= max_steps

\* C8 witness: tool calls on steps 1..MaxSteps-1, text on the last step of the
\* budget.
C8_Witness ==
    /\ max_steps = MaxSteps
    /\ pc["A"] = "returned"
    /\ ret["A"] = Returned("Completed", FinalText)
    /\ step_count = MaxSteps
    /\ toolSteps["A"] = MaxSteps - 1


Terminal(c) ==
    \/ response[c].received /\ FunctionCallsOf(response[c].output) = <<>>
    \/ pc[c] \in {"loop", "returned"} /\ inferences[c] >= max_steps

\* C10: once a run is terminal it makes no further inference call, no further
\* tool invocation and no further append to the conversation, and a run that
\* has returned stays returned with the same result (until run() is called
\* again).
C10_TerminalAbsorbing ==
    [][\A c \in Coros :
          ((Terminal(c) \/ pc[c] = "returned") /\ runs' = runs) =>
             /\ inferences'[c] = inferences[c]
             /\ invocations'[c] = invocations[c]
             /\ input_items' = input_items
             /\ pc'[c] = "returned"
             /\ (pc[c] = "returned" => ret'[c] = ret[c])]_vars

\* C10 witness: a run returned Completed with budget left, and the agent was
\* shut down afterwards.
C10_Witness ==
    /\ pc["A"] = "returned"
    /\ ret["A"].outcome = "Completed"
    /\ inferences["A"] < max_steps
    /\ ~session

\* The items the current (or last) step of caller c appended after the engine
\* output: what follows the answered input and the answer.
StepResults(c) ==
    SubSeq(input_items, Len(sent[c]) + Len(response[c].output) + 1, Len(input_items))
CallIdsOf(items) == [i \in 1..Len(items) |-> items[i].call_id]

\* C11: whenever a step of run() is over (run() is at the `for step` header,
\* in the next inference call, or has ended), the call ids of the tool results
\* the step appended are the call ids of the function calls of the step's
\* engine output, in the same order, whether the calls succeeded or failed.
C11_ResultsInCallOrder ==
    \A c \in Coros :
       (response[c].received /\ pc[c] \in {"loop", "infer", "returned", "raised"}) =>
          CallIdsOf(StepResults(c))
             = CallIdsOf(FunctionCallsOf(response[c].output))

\* C11, as far as the tool loop got: at every point of a step the results
\* appended so far answer the first calls of the step, in the order of the
\* calls, and all of them once the tool loop has run to its end.
C11_ResultsPrefixOfCalls ==
    \A c \in Coros :
       response[c].received =>
          LET ids == CallIdsOf(FunctionCallsOf(response[c].output))
              got == CallIdsOf(StepResults(c))
          IN /\ Len(got) <= Len(ids)
             /\ got = SubSeq(ids, 1, Len(got))
             /\ pc[c] \in {"dispatch", "await_tool"} => Len(got) = fci[c] - 1
             /\ pc[c] \in {"loop", "infer", "returned"} => got = ids

\* C12: of two run() executions interleaved on the one agent object, each has
\* at every point a conversation that holds the turns of its own task only,
\* and a step count that its own steps set.
C12_RunsDoNotInterfere ==
    \A c \in Coros :
       Active(c) =>
          /\ input_items = own[c]
          /\ step[c] >= 0 => step_count = StepCountOf(step[c])

\* C13: while the inference call or the tool invocation of one task is
\* outstanding, another task whose tool invocation is outstanding can be
\* resumed with the answer of its tool.
C13_CallsAreSuspensionPoints ==
    \A c \in Coros : \A d \in Coros \ {c} :
       (pc[c] \in {"infer", "await_tool"} /\ pc[d] = "await_tool") =>
          ENABLED ToolResumes(d)

\* C13, the tool invocation alone: it is a suspension point.
C13_ToolCallSuspends ==
    \A c \in Coros : \A d \in Coros \ {c} :
       (pc[c] = "await_tool" /\ pc[d] = "await_tool") => ENABLED ToolResumes(d)

\* run() of caller c was aborted by a failed inference call.
Aborted(c) ==
    pc[c] = "raised" /\ ret[c].kind = "raise" /\ ret[c].value = "APIConnectionError"

\* C14: an inference call that fails ends run() with the failure raised to the
\* caller and leaves the conversation exactly as it was before the call, with
\* no tool invocation started; after that the run makes no inference call and
\* no tool invocation and the conversation stays as it is (until run() is
\* called again).
C14_InferenceFailureAborts ==
    [][\A c \in Coros :
          /\ (pc[c] = "infer" /\ pc'[c] # "infer" /\ response'[c] = response[c]) =>
                /\ Aborted(c)'
                /\ input_items' = input_items
                /\ invocations'[c] = invocations[c]
                /\ inferences'[c] = inferences[c] + 1
          /\ (Aborted(c) /\ runs' = runs) =>
                /\ Aborted(c)'
                /\ ret'[c] = ret[c]
                /\ input_items' = input_items
                /\ inferences'[c] = inferences[c]
                /\ invocations'[c] = invocations[c]]_vars

\* C14 witness: the second inference call of a run failed; the conversation
\* holds the first step's turns, and the agent was shut down afterwards.
C14_Witness ==
    /\ Aborted("A")
    /\ inferences["A"] = 2
    /\ input_items = sent["A"] \o response["A"].output \o StepResults("A")
    /\ Len(StepResults("A")) = 2
    /\ ~session

\* C15: the tool schema of a run is the one read from the MCP client when
\* run() is entered; it stays the same for as long as the run lasts, whatever
\* tool is invoked, fails or list_tools() is called meanwhile, and every
\* inference call of the run is passed that one schema.
C15_CatalogFixedForRun ==
    /\ [](\A c \in Coros :
             /\ Cardinality(toolsPassed[c]) <= 1
             /\ Active(c) => toolsPassed[c] \subseteq {openai_tools[c]})
    /\ [][\A c \in Coros :
             /\ (~Active(c) /\ Active(c)') =>
                   openai_tools'[c] = OpenAiToolsSchema(tools_cache)
             /\ (Active(c) /\ Active(c)') => openai_tools'[c] = openai_tools[c]]_vars

\* C15 witness: list_tools() answered with the empty catalog while the run was
\* suspended in its first step; the second inference call has just been made
\* with the schema of the run's start.
C15_Witness ==
    /\ pc["A"] = "dispatch"
    /\ inferences["A"] = 2
    /\ tools_cache = Cache(<<>>)
    /\ toolsPassed["A"] = {<<OpenAiTool("orbit_camera")>>}

\* C16: whatever goes wrong while the debug screenshot is written (the base64
\* data does not decode, the file cannot be opened, the write breaks off), the
\* formatter gives its caller what it gives when the write succeeds: the same
\* item, and no exception that would be reported as a tool error.
C16_PersistFailureContained ==
    fmt_out.done =>
       LET ok == FormatCall(fmt_out.call_id, fmt_in, FALSE, "ok")
       IN /\ fmt_out.raised = ok.raised
          /\ fmt_out.exc = ok.exc
          /\ fmt_out.item = ok.item
          /\ (WellTyped(fmt_in) /\ fmt_out.write # "ok") => ~fmt_out.raised

\* C16 witness: the write of the image of [Text a, Image] broke off and left a
\* truncated file; the formatter returned the two-item list all the same.
C16_Witness ==
    /\ fmt_out.done
    /\ fmt_out.write = "partial"
    /\ fmt_in = <<TextBlock(PyStr("a")), ImageBlock(PyStr("QUJD"), "image/png")>>
    /\ debug_file.exists /\ ~debug_file.complete
    /\ ~fmt_out.raised
    /\ fmt_out.item =
          FunctionCallOutput(fmt_out.call_id,
                             OutList(<<InputText("a"), InputImage("QUJD", "image/png")>>))

IsPrefix(a, b) == Len(a) <= Len(b) /\ SubSeq(b, 1, Len(a)) = a

\* C18: the first inference call of a run is sent exactly one turn, the user
\* task; every later one is sent the input of the call before it, followed by
\* the engine output of that step and then the step's tool results, one per
\* function call; and as long as the run lasts every step of the program
\* leaves the turns the conversation holds where and as they are.
C18_ConversationAppendOnly ==
    /\ [](\A c \in Coros :
             /\ (pc[c] = "infer" /\ inferences[c] = 0) =>
                   \E task \in TaskTexts : input_items = <<UserItem(task)>>
             /\ (pc[c] = "infer" /\ inferences[c] > 0) =>
                   /\ IsPrefix(sent[c], input_items)
                   /\ input_items = sent[c] \o response[c].output \o StepResults(c)
                   /\ Len(StepResults(c)) = Len(FunctionCallsOf(response[c].output))
                   /\ \A i \in 1..Len(StepResults(c)) :
                         IsFunctionCallOutput(StepResults(c)[i]))
    /\ [][runs' = runs => IsPrefix(input_items, input_items')]_vars

\* C18 witness: the second inference call of a run is being made; its input
\* is the user task, the engine's message and two function calls, and the two
\* tool results.
C18_Witness ==
    /\ pc["A"] = "infer"
    /\ inferences["A"] = 1
    /\ Len(sent["A"]) = 1
    /\ Len(response["A"].output) = 3
    /\ Len(input_items) = 6
    /\ IsFunctionCallOutput(input_items[5]) /\ IsFunctionCallOutput(input_items[6])

\* run() of caller c ended with the CancelledError of task.cancel().
Cancelled(c) == pc[c] = "raised" /\ ret[c].value = "CancelledError"

\* C19: a run that was cancelled while a tool invocation was in flight has
\* let that invocation complete (every invocation it started came back) and
\* has not ended Completed.
C19_InFlightCallCompletes ==
    \A c \in Coros :
       Cancelled(c) => (completed[c] = invocations[c] /\ ret[c].outcome # "Completed")

\* C19, the rest: a cancelled run starts no further inference call or tool
\* invocation and appends nothing more, and it never ends Completed.
C19_CancelledRunStops ==
    [][\A c \in Coros :
          (Cancelled(c) /\ runs' = runs) =>
             /\ Cancelled(c)'
             /\ inferences'[c] = inferences[c]
             /\ invocations'[c] = invocations[c]
             /\ own'[c] = own[c]]_vars

\* C20: over all the image blocks an agent object formats, in whatever step
\* and run, at most one write of the debug screenshot is attempted, and it is
\* the one for the first image block; once an image block was seen the file
\* on disk is never touched again, also when that first write failed.
C20_FirstScreenshotOnly ==
    /\ [](/\ Cardinality(writesTried) <= 1
          /\ writesTried = (IF imagesSeen >= 1 THEN {1} ELSE {})
          /\ debug_file.exists => debug_file.image = 1)
    /\ [][imagesSeen >= 1 => debug_file' = debug_file]_vars

\* C20 witness: the write for the first image block failed before the file
\* was opened; by the second run() on the object a second image block has
\* come and no file was written for it.
C20_Witness ==
    /\ runs = 2
    /\ imagesSeen = 2
    /\ writesTried = {1}
    /\ ~debug_file.exists
    /\ screenshot_saved

\* run() of caller c was left by the RuntimeError of get_openai_tools_schema.
NoCatalog(c) ==
    pc[c] = "raised" /\ ret[c].value = "RuntimeError: Call list_tools() first"

\* C21: a run() entered while the tool cache is None or empty raises before
\* its first step, with the conversation reset to the one user-task turn and
\* the step count as it was; such a run makes no inference call and no tool
\* invocation, and every run that makes one holds a non-empty tool schema,
\* read from a catalog that list_tools() stored.
C21_NoStepWithoutCatalog ==
    /\ [](\A c \in Coros :
             /\ NoCatalog(c) =>
                   /\ inferences[c] = 0 /\ invocations[c] = 0
                   /\ \E task \in TaskTexts : input_items = <<UserItem(task)>>
             /\ Active(c) => openai_tools[c] # <<>>
             /\ (inferences[c] > 0 \/ invocations[c] > 0) =>
                   (~NoCatalog(c) /\ \A t \in toolsPassed[c] : t # <<>>))
    /\ [][\A c \in MainCallers :
             runs' = runs + 1 =>
                IF tools_cache.isNone \/ tools_cache.tools = <<>>
                THEN /\ NoCatalog(c)'
                     /\ step_count' = step_count
                     /\ Len(input_items') = 1 /\ input_items' = own'[c]
                ELSE /\ pc'[c] = "loop"
                     /\ openai_tools'[c] = OpenAiToolsSchema(tools_cache)]_vars

\* C21 witness: after a run that made steps, list_tools() stored the empty
\* catalog; the second run raised with the conversation reset to its user
\* turn and the step count of the first run still in place.
C21_Witness ==
    /\ NoCatalog("A")
    /\ runs = 2
    /\ tools_cache = Cache(<<>>)
    /\ step_count = MaxSteps
    /\ Len(input_items) = 1
    /\ inferences["A"] = 0


====
